---------------------------- MODULE Spec2Model ----------------------------
(***************************************************************************)
(* s3-site: lib/bucket.js.  A Bucket instance drives one S3 bucket through *)
(* destroy / create / upload; deploy is the series of the three.           *)
(*                                                                         *)
(* Strings are sequences of one-character strings, so that join, replace,  *)
(* substr and extname are computed the way the JavaScript computes them.   *)
(* Every remote request and every fs call is a pair of moments: it is      *)
(* issued by the handler that runs before it, and its completion runs the  *)
(* callback the code passed, which issues whatever the code issues next.   *)
(***************************************************************************)
EXTENDS Integers, Sequences, FiniteSets, Bags, TLC

VARIABLES
    options,      \* this.options of each Bucket instance
    bucketName,   \* this.bucketName of each Bucket instance
    policy,       \* module-level policy.Statement[0].Resource (shared by all instances)
    tree,         \* the local filesystem under the source directory
    store,        \* the remote service: bucket name -> bucket
    op,           \* the method the caller invoked on each instance ("idle": none)
    pc,           \* the request of the sequential pipeline that is in flight
    req,          \* the parameters of that request
    groups,       \* async.each bookkeeping of every uploadDirectory in progress
    tasks,        \* fs calls and putObject requests in flight during upload
    result,       \* what the caller's callback received, and how often
    rq,           \* per request kind: how many were issued, completed, last error
    faulted,      \* an injected remote fault or fs failure happened in this call
    stages,       \* the callbacks of destroy, create and upload in this call, in order
    last,         \* the instance of this call; the method of the call before it, whether it succeeded, what it was given
    calls,        \* number of calls made so far
    given,        \* the listing the caller passed to removeContents in this call
    puts          \* the file paths putObject was issued for in this call, with multiplicity

vars == <<options, bucketName, policy, tree, store, op, pc, req, groups, tasks,
          result, rq, faulted, stages, last, calls, given, puts>>

-----------------------------------------------------------------------------
(* Bounds *)

MaxNameLen == 2
MaxKeys == 2
MaxCalls == 2
MaxMethodCalls == 3

-----------------------------------------------------------------------------
(* Strings *)

\* undefined (an option that was not given); '' is <<>>
Undefined == <<"undefined">>

\* JavaScript truthiness of a string-or-undefined option
Truthy(s) == s # <<>> /\ s # Undefined

RECURSIVE Join(_, _)
\* Array.prototype.join
Join(parts, sep) ==
    IF parts = <<>> THEN <<>>
    ELSE IF Len(parts) = 1 THEN Head(parts)
    ELSE Head(parts) \o sep \o Join(Tail(parts), sep)

\* String.prototype.substr(from) with 0-based from
Substr(s, from) == IF from >= Len(s) THEN <<>> ELSE SubSeq(s, from + 1, Len(s))

\* String.prototype.substr(0, n)
SubstrTo(s, n) == IF n <= 0 THEN <<>> ELSE SubSeq(s, 1, IF n > Len(s) THEN Len(s) ELSE n)

\* positions (1-based) at which pat occurs in s
Occurrences(s, pat) ==
    {i \in 1..(Len(s) - Len(pat) + 1) : SubSeq(s, i, i + Len(pat) - 1) = pat}

\* String.prototype.replace(pat, '') with a string pattern: first occurrence only
ReplaceFirst(s, pat) ==
    IF Occurrences(s, pat) = {} THEN s
    ELSE LET i == CHOOSE j \in Occurrences(s, pat) :
                      \A k \in Occurrences(s, pat) : j <= k
         IN  SubSeq(s, 1, i - 1) \o SubSeq(s, i + Len(pat), Len(s))

\* last position of character c in s, 0 when absent
LastIndexOf(s, c) ==
    IF \E i \in 1..Len(s) : s[i] = c
    THEN CHOOSE i \in 1..Len(s) : s[i] = c /\ \A j \in (i+1)..Len(s) : s[j] # c
    ELSE 0

\* path.basename
Basename(p) == Substr(p, LastIndexOf(p, "/"))

\* path.extname: from the last '.' of the basename, '' when there is none or
\* when it is the basename's first character
Extname(p) ==
    LET b == Basename(p)
        d == LastIndexOf(b, ".")
    IN  IF d <= 1 THEN <<>> ELSE Substr(b, d - 1)

RECURSIVE Normalize(_)
\* path.normalize restricted to what path.join meets here: runs of '/' collapse
Normalize(p) ==
    IF Len(p) < 2 THEN p
    ELSE IF p[1] = "/" /\ p[2] = "/" THEN Normalize(Tail(p))
    ELSE <<p[1]>> \o Normalize(Tail(p))

\* path.join(a, b)
PathJoin(a, b) == Normalize(a \o <<"/">> \o b)

\* the directory a path names, however it is written ("/w/" is "/w")
Resolve(p) ==
    LET n == Normalize(p)
    IN  IF Len(n) > 1 /\ n[Len(n)] = "/" THEN SubSeq(n, 1, Len(n) - 1) ELSE n

-----------------------------------------------------------------------------
(* Bucket name *)

\* a mutation of _createBucketName: env is unshifted after prefix
createBucketNameSwapped(o) ==
    LET p0 == <<o.name>>
        p1 == IF Truthy(o.prefix) THEN <<o.prefix>> \o p0 ELSE p0
        p2 == IF Truthy(o.env) THEN <<o.env>> \o p1 ELSE p1
    IN  Join(p2, <<"-">>)

\* Bucket.prototype._createBucketName
createBucketName(o) ==
    LET p0 == <<o.name>>
        p1 == IF Truthy(o.env) THEN <<o.env>> \o p0 ELSE p0
        p2 == IF Truthy(o.prefix) THEN <<o.prefix>> \o p1 ELSE p1
    IN  Join(p2, <<"-">>)


-----------------------------------------------------------------------------
(* Errors.  Every error is a record, so that errors of different origin can *)
(* be compared; statusCode 0 stands for an error that carries none.         *)

\* no error: null / undefined in the callback's first argument
Null == [statusCode |-> 0, code |-> "null"]

\* the string 'Does not exist' that verifyExistence passes on a 404
DoesNotExist == [statusCode |-> 0, code |-> "Does not exist"]

E404 == [statusCode |-> 404, code |-> "NotFound"]
NoSuchBucket == [statusCode |-> 404, code |-> "NoSuchBucket"]
BucketNotEmpty == [statusCode |-> 409, code |-> "BucketNotEmpty"]
BucketAlreadyOwnedByYou == [statusCode |-> 409, code |-> "BucketAlreadyOwnedByYou"]
MalformedPolicy == [statusCode |-> 400, code |-> "MalformedPolicy"]
InvalidKey == [statusCode |-> 400, code |-> "InvalidKey"]
InternalError == [statusCode |-> 500, code |-> "InternalError"]
NetworkingError == [statusCode |-> 0, code |-> "NetworkingError"]
EIO == [statusCode |-> 0, code |-> "EIO"]

\* failures the service may answer whatever the bucket's state
Faults(kind) ==
    IF kind = "headBucket" THEN {InternalError, NetworkingError} ELSE {InternalError}

-----------------------------------------------------------------------------
(* The remote service, strongly consistent: a request's effect and its      *)
(* answer happen together, at the moment the request completes.             *)

NoBucket == [exists |-> FALSE, objects |-> {}, website |-> Undefined, policy |-> Undefined]
EmptyBucket == [NoBucket EXCEPT !.exists = TRUE]

Alphabet == <<"-", ".", "/", "*", ":", "a", "b", "d", "e", "h", "i", "n", "r", "s", "w", "x", "y", "z">>

Rank(c) == CHOOSE i \in 1..Len(Alphabet) : Alphabet[i] = c

RECURSIVE Less(_, _)
\* binary order of keys, the order listObjects answers in
Less(s, t) ==
    IF t = <<>> THEN FALSE
    ELSE IF s = <<>> THEN TRUE
    ELSE IF s[1] # t[1] THEN Rank(s[1]) < Rank(t[1])
    ELSE Less(Tail(s), Tail(t))

RECURSIVE SortKeys(_)
SortKeys(ks) ==
    IF ks = {} THEN <<>>
    ELSE LET m == CHOOSE k \in ks : \A o \in ks \ {k} : Less(k, o)
         IN  <<m>> \o SortKeys(ks \ {m})

Keys(bkt) == {o.Key : o \in bkt.objects}

\* one item of a listing's Contents
Content(k) == [Key |-> k, Size |-> 1]

\* listObjects answers at most MaxKeys keys, smallest first
ListedContents(bkt) ==
    LET all == SortKeys(Keys(bkt))
        n == IF Len(all) > MaxKeys THEN MaxKeys ELSE Len(all)
    IN  [i \in 1..n |-> Content(all[i])]

\* policy.json: Statement[0].Resource as loaded
PolicyArn == <<"a", "r", "n", ":">>

Answer(err, data, bkt) == [err |-> err, data |-> data, bucket |-> bkt]

\* a bucket policy is accepted when its resource lies inside the bucket
ValidResource(res, name) ==
    LET pre == PolicyArn \o name \o <<"/">>
    IN  Len(res) >= Len(pre) /\ SubSeq(res, 1, Len(pre)) = pre

\* the service's answers to a request of the given kind on bucket bkt named name
S3(kind, params, bkt, name) ==
    LET missing == {Answer(NoSuchBucket, <<>>, bkt)}
    IN  CASE kind = "headBucket" ->
               {Answer(IF bkt.exists THEN Null ELSE E404, <<>>, bkt)}
          [] kind = "listObjects" ->
               IF bkt.exists THEN {Answer(Null, ListedContents(bkt), bkt)} ELSE missing
          [] kind = "deleteObjects" ->
               IF bkt.exists
               THEN {Answer(Null, <<>>,
                       [bkt EXCEPT !.objects =
                           {o \in @ : \A i \in 1..Len(params.Objects) :
                                          params.Objects[i].Key # o.Key}])}
               ELSE missing
          [] kind = "deleteBucket" ->
               IF ~bkt.exists THEN missing
               ELSE IF bkt.objects # {} THEN {Answer(BucketNotEmpty, <<>>, bkt)}
               ELSE {Answer(Null, <<>>, NoBucket)}
          [] kind = "createBucket" ->
               IF bkt.exists THEN {Answer(BucketAlreadyOwnedByYou, <<>>, bkt)}
               ELSE {Answer(Null, <<>>, EmptyBucket)}
          [] kind = "putBucketWebsite" ->
               IF bkt.exists
               THEN {Answer(Null, <<>>, [bkt EXCEPT !.website = params.Suffix])}
               ELSE missing
          [] kind = "putBucketPolicy" ->
               IF ~bkt.exists THEN missing
               ELSE IF ValidResource(params.Resource, name)
               THEN {Answer(Null, <<>>, [bkt EXCEPT !.policy = params.Resource])}
               ELSE {Answer(MalformedPolicy, <<>>, bkt)}
          [] kind = "putObject" ->
               IF ~bkt.exists THEN missing
               ELSE IF params.Key = <<>>
               THEN {Answer(InvalidKey, <<>>, bkt), Answer(Null, <<>>, bkt)}
               ELSE {Answer(Null, <<>>,
                       [bkt EXCEPT !.objects =
                           {o \in @ : o.Key # params.Key} \cup
                           {[Key |-> params.Key, Body |-> params.Body,
                             CacheControl |-> params.CacheControl]}])}

\* every answer a request can get: the service's own, or a fault that changes nothing
Answers(kind, params, bkt, name) ==
    S3(kind, params, bkt, name) \cup {Answer(f, <<>>, bkt) : f \in Faults(kind)}

-----------------------------------------------------------------------------
(* The local filesystem *)

W == <<"/", "w">>
Wslash == <<"/", "w", "/">>
Fa == <<"a">>
Fah == <<"a", ".", "h">>
Fb == <<"b">>
Dd == <<"d">>
DotH == <<".", "h">>

Dir(p, names) == [path |-> p, kind |-> "dir", names |-> names]
File(p) == [path |-> p, kind |-> "file", names |-> <<>>]

\* a.h beside a directory d holding b
TreeNested ==
    {Dir(W, <<Fah, Dd>>), File(PathJoin(W, Fah)),
     Dir(PathJoin(W, Dd), <<Fb>>), File(PathJoin(PathJoin(W, Dd), Fb))}

\* a beside a.h
TreeClash == {Dir(W, <<Fa, Fah>>), File(PathJoin(W, Fa)), File(PathJoin(W, Fah))}

\* no entries at all
TreeEmpty == {Dir(W, <<>>)}

Trees == {TreeNested, TreeClash, TreeEmpty}

Entries(t, p) == {e \in t : e.path = Resolve(p)}

FsAnswer(err, names, isDir, body) ==
    [err |-> err, names |-> names, isDirectory |-> isDir, body |-> body]

ENOENT == [statusCode |-> 0, code |-> "ENOENT"]
ENOTDIR == [statusCode |-> 0, code |-> "ENOTDIR"]
EISDIR == [statusCode |-> 0, code |-> "EISDIR"]

\* what the filesystem itself answers to fs.readdir, fs.stat, fs.readFile
FsOwn(kind, t, p) ==
    IF Entries(t, p) = {} THEN FsAnswer(ENOENT, <<>>, FALSE, Undefined)
    ELSE LET e == CHOOSE x \in Entries(t, p) : TRUE
         IN  CASE kind = "readdir" ->
                    IF e.kind = "dir" THEN FsAnswer(Null, e.names, TRUE, Undefined)
                    ELSE FsAnswer(ENOTDIR, <<>>, FALSE, Undefined)
               [] kind = "stat" -> FsAnswer(Null, <<>>, e.kind = "dir", Undefined)
               [] kind = "readFile" ->
                    IF e.kind = "file" THEN FsAnswer(Null, <<>>, FALSE, e.path)
                    ELSE FsAnswer(EISDIR, <<>>, TRUE, Undefined)

\* every answer an fs call can get: the filesystem's own, or an I/O error
FsAnswers(kind, t, p) ==
    {FsOwn(kind, t, p), FsAnswer(EIO, <<>>, FALSE, Undefined)}

\* the regular files of the tree
RegularFiles(t) == {e.path : e \in {x \in t : x.kind = "file"}}

-----------------------------------------------------------------------------
(* Control state *)

Inst == {1, 2}

Kinds == {"headBucket", "listObjects", "deleteObjects", "deleteBucket",
          "createBucket", "putBucketWebsite", "putBucketPolicy", "putObject",
          "readdir", "stat", "readFile"}

\* this._params(...) without the Bucket key, which is bucketName
NoReq == [Objects |-> <<>>, Suffix |-> <<>>, Resource |-> <<>>]

\* the CacheControl value 'no-cache, no-store, must-revalidate', by directive
NoCacheControl == <<"no-cache", "no-store", "must-revalidate">>

\* a timestamp absent from the parameters is {}, one that is present is {time}
NoPut == [Key |-> <<>>, Body |-> Undefined, CacheControl |-> Undefined, Expires |-> {}]

FreshRq == [k \in Kinds |-> [issued |-> 0, done |-> 0, err |-> Null]]

NoResult == [n |-> 0, err |-> Null, data |-> <<>>]

MarkIssued(r, k) == [r EXCEPT ![k].issued = @ + 1]

MarkDone(r, k, err) ==
    [r EXCEPT ![k].done = @ + 1, ![k].err = IF err # Null THEN err ELSE @]

\* the part of the state a handler may change as it runs
Ctx(b) == [rq |-> rq[b], stages |-> stages[b], groups |-> groups[b],
           tasks |-> tasks[b], policy |-> policy, result |-> result[b],
           puts |-> puts[b]]

Commit(b, c) ==
    /\ rq' = [rq EXCEPT ![b] = c.rq]
    /\ puts' = [puts EXCEPT ![b] = c.puts]
    /\ stages' = [stages EXCEPT ![b] = c.stages]
    /\ groups' = [groups EXCEPT ![b] = c.groups]
    /\ tasks' = [tasks EXCEPT ![b] = c.tasks]
    /\ result' = [result EXCEPT ![b] = c.result]
    /\ policy' = c.policy

\* this.s3.<kind>(this._params(params), callback)
Issue(b, c, kind, params) ==
    /\ pc' = [pc EXCEPT ![b] = kind]
    /\ req' = [req EXCEPT ![b] = params]
    /\ Commit(b, [c EXCEPT !.rq = MarkIssued(@, kind)])

\* the caller's callback is invoked
Finish(b, c, err, data) ==
    /\ pc' = [pc EXCEPT ![b] = "done"]
    /\ req' = [req EXCEPT ![b] = NoReq]
    /\ Commit(b, [c EXCEPT !.result = [n |-> @.n + 1, err |-> err, data |-> data]])

AddStage(c, stage, err) ==
    [c EXCEPT !.stages = Append(@, [stage |-> stage, err |-> err])]

-----------------------------------------------------------------------------
(* upload *)

\* the callback of the outermost uploadDirectory
Root == <<>>

Task(kind, path, parent, params) ==
    [kind |-> kind, path |-> path, parent |-> parent, params |-> params]

\* Bucket.prototype.uploadDirectory: fs.readdir(directoryPath) is issued; parent
\* names the async.each whose iterator callback this directory reports to
uploadDirectory(c, directoryPath, parent) ==
    [c EXCEPT !.tasks = @ \cup {Task("readdir", directoryPath, parent, NoPut)},
              !.rq = MarkIssued(@, "readdir")]

\* Bucket.prototype.uploadFile: the object key of a file
fileKey(filePath, o) ==
    LET k == Substr(ReplaceFirst(filePath, o.srcPath), 1)
        extension == Extname(k)
    IN  IF extension \in o.removeExtensions
        THEN SubstrTo(k, Len(k) - Len(extension))
        ELSE k

\* Bucket.prototype.uploadFile: fs.readFile(filePath) is issued
uploadFile(c, filePath, parent, o) ==
    [c EXCEPT !.tasks = @ \cup {Task("readFile", filePath, parent,
                                     [NoPut EXCEPT !.Key = fileKey(filePath, o)])},
              !.rq = MarkIssued(@, "readFile")]

\* new Date(): the clock advances with every completion of an fs call or a
\* request, and reads the number of completions of the call so far
Now(r) ==
    r["headBucket"].done + r["listObjects"].done + r["deleteObjects"].done
      + r["deleteBucket"].done + r["createBucket"].done
      + r["putBucketWebsite"].done + r["putBucketPolicy"].done
      + r["readdir"].done + r["stat"].done + r["readFile"].done
      + r["putObject"].done

\* a mutation of uploadFile: the no-cache fields are set for every key
putParamsAlways(key, err, fileBuffer, o, now) ==
    [Key |-> key, Body |-> fileBuffer, CacheControl |-> NoCacheControl,
     Expires |-> {now}]

\* Bucket.prototype.uploadFile, the callback of fs.readFile: the parameters of
\* the putObject it issues; err is not looked at
putParams(key, err, fileBuffer, o, now) ==
    IF key \in o.noCache
    THEN [Key |-> key, Body |-> fileBuffer, CacheControl |-> NoCacheControl,
          Expires |-> {now}]
    ELSE [Key |-> key, Body |-> fileBuffer, CacheControl |-> Undefined,
          Expires |-> {}]

RECURSIVE ChildDoneFirst(_, _, _)
\* a mutation of async.each's done(err): the callback is invoked as soon as
\* one child has completed
ChildDoneFirst(gs, g, err) ==
    IF g = Root THEN [groups |-> gs, root |-> TRUE, err |-> err]
    ELSE LET grp == CHOOSE x \in gs : x.dir = g
         IN  IF grp.called
             THEN [groups |-> gs, root |-> FALSE, err |-> Null]
             ELSE ChildDoneFirst((gs \ {grp}) \cup
                                     {[grp EXCEPT !.completed = @ + 1,
                                                  !.called = TRUE]},
                                 grp.parent, err)

RECURSIVE ChildDoneEveryError(_, _, _)
\* a mutation of async.each's done(err): the callback is not replaced after
\* the first error, so every error is passed on
ChildDoneEveryError(gs, g, err) ==
    IF g = Root THEN [groups |-> gs, root |-> TRUE, err |-> err]
    ELSE LET grp == CHOOSE x \in gs : x.dir = g
         IN  IF err # Null
             THEN ChildDoneEveryError((gs \ {grp}) \cup {[grp EXCEPT !.called = TRUE]},
                                      grp.parent, err)
             ELSE LET gs1 == (gs \ {grp}) \cup
                                 {[grp EXCEPT !.completed = @ + 1]}
                  IN  IF grp.completed + 1 >= grp.total /\ ~grp.called
                      THEN ChildDoneEveryError(gs1, grp.parent, Null)
                      ELSE [groups |-> gs1, root |-> FALSE, err |-> Null]

RECURSIVE ChildDone(_, _, _)
\* async.each's done(err) of the group of directory g, and what it sets off:
\* the groups afterwards, whether the outermost callback was reached, with what
ChildDone(gs, g, err) ==
    IF g = Root THEN [groups |-> gs, root |-> TRUE, err |-> err]
    ELSE LET grp == CHOOSE x \in gs : x.dir = g
         IN  IF err # Null
             THEN IF grp.called
                  THEN [groups |-> gs, root |-> FALSE, err |-> Null]
                  ELSE ChildDone((gs \ {grp}) \cup {[grp EXCEPT !.called = TRUE]},
                                 grp.parent, err)
             ELSE LET gs1 == (gs \ {grp}) \cup
                                 {[grp EXCEPT !.completed = @ + 1]}
                  IN  IF grp.completed + 1 >= grp.total /\ ~grp.called
                      THEN ChildDone(gs1, grp.parent, Null)
                      ELSE [groups |-> gs1, root |-> FALSE, err |-> Null]

\* upload's callback: the last task of deploy's series, or the caller's own
uploadCallback(b, c, err) ==
    Finish(b, AddStage(c, "upload", err), err, <<>>)

\* an iterator callback was invoked with err for the group named parent
Report(b, c, parent, err) ==
    LET d == ChildDone(c.groups, parent, err)
        c1 == [c EXCEPT !.groups = d.groups]
    IN  IF d.root THEN uploadCallback(b, c1, d.err)
        ELSE /\ Commit(b, c1)
             /\ UNCHANGED <<pc, req>>

\* Bucket.prototype.upload
upload(b, c) ==
    /\ pc' = [pc EXCEPT ![b] = "upload"]
    /\ req' = [req EXCEPT ![b] = NoReq]
    /\ Commit(b, uploadDirectory(c, options[b].srcPath, Root))

-----------------------------------------------------------------------------
(* create *)

\* create's callback: deploy's series goes on to upload, or stops at the error
createCallback(b, c, err) ==
    LET c1 == AddStage(c, "create", err)
    IN  IF op[b] = "create" THEN Finish(b, c1, err, <<>>)
        ELSE IF err # Null THEN Finish(b, c1, err, <<>>)
        ELSE upload(b, c1)

makePublicCallback(b, c, err) ==
    IF op[b] = "makePublic" THEN Finish(b, c, err, <<>>)
    ELSE createCallback(b, c, err)

\* Bucket.prototype.makePublic: _.clone is shallow, so Statement[0] is the
\* module's own object and += writes the shared template
makePublic(b, c) ==
    LET resource == c.policy \o bucketName[b] \o <<"/", "*">>
    IN  Issue(b, [c EXCEPT !.policy = resource], "putBucketPolicy",
              [NoReq EXCEPT !.Resource = resource])

makeWebsiteCallback(b, c, err) ==
    IF op[b] = "makeWebsite" THEN Finish(b, c, err, <<>>)
    ELSE IF err # Null THEN createCallback(b, c, err)
    ELSE makePublic(b, c)

IndexHtml == <<"i", "n", "d", "e", "x", ".", "h">>

\* Bucket.prototype.makeWebsite: this.options.indexDocument || 'index.html'
indexSuffix(o) == IF Truthy(o.indexDocument) THEN o.indexDocument ELSE IndexHtml

makeWebsite(b, c) ==
    Issue(b, c, "putBucketWebsite", [NoReq EXCEPT !.Suffix = indexSuffix(options[b])])

\* a mutation of createBucket's callback: a failed createBucket is tried once
\* more
createBucketCallbackRetry(b, c, err) ==
    IF err # Null /\ c.rq["createBucket"].issued < 2
    THEN Issue(b, c, "createBucket", NoReq)
    ELSE IF op[b] = "createBucket" THEN Finish(b, c, err, <<>>)
    ELSE IF err # Null THEN createCallback(b, c, err)
    ELSE makeWebsite(b, c)

createBucketCallback(b, c, err) ==
    IF op[b] = "createBucket" THEN Finish(b, c, err, <<>>)
    ELSE IF err # Null THEN createCallback(b, c, err)
    ELSE makeWebsite(b, c)

\* Bucket.prototype.createBucket
createBucket(b, c) == Issue(b, c, "createBucket", NoReq)

\* Bucket.prototype.create: async.series([createBucket, makeWebsite, makePublic])
create(b, c) == createBucket(b, c)

-----------------------------------------------------------------------------
(* destroy *)

\* a mutation of destroy's final callback: 'Does not exist' is passed on
destroyErrorStrict(err) == err

\* destroy's final callback: 'Does not exist' counts as success
destroyError(err) == IF err = Null \/ err = DoesNotExist THEN Null ELSE err

\* a mutation of deploy's series: create runs whatever destroy reported
destroyCallbackContinue(b, c, err) ==
    LET e == destroyError(err)
        c1 == AddStage(c, "destroy", e)
    IN  IF op[b] = "destroy" THEN Finish(b, c1, e, <<>>)
        ELSE create(b, c1)

\* destroy's callback: deploy's series goes on to create, or stops at the error
destroyCallback(b, c, err) ==
    LET e == destroyError(err)
        c1 == AddStage(c, "destroy", e)
    IN  IF op[b] = "destroy" THEN Finish(b, c1, e, <<>>)
        ELSE IF e # Null THEN Finish(b, c1, e, <<>>)
        ELSE create(b, c1)

\* a mutation of removeBucket's callback: the error is dropped
removeBucketCallbackSwallow(b, c, err) ==
    IF op[b] = "removeBucket" THEN Finish(b, c, Null, <<>>)
    ELSE destroyCallback(b, c, Null)

\* a mutation of removeBucket's callback: after a failure the contents are
\* listed and removed again
removeBucketCallbackAgain(b, c, err) ==
    IF op[b] = "removeBucket" THEN Finish(b, c, err, <<>>)
    ELSE IF err # Null /\ c.rq["listObjects"].issued < 2
    THEN Issue(b, c, "listObjects", NoReq)
    ELSE destroyCallback(b, c, err)

removeBucketCallback(b, c, err) ==
    IF op[b] = "removeBucket" THEN Finish(b, c, err, <<>>)
    ELSE destroyCallback(b, c, err)

\* Bucket.prototype.removeBucket
removeBucket(b, c) == Issue(b, c, "deleteBucket", NoReq)

\* a mutation of destroy's waterfall: removeBucket runs whatever removeContents
\* reported
removeContentsCallbackIgnore(b, c, err) ==
    IF op[b] = "removeContents" THEN Finish(b, c, err, <<>>)
    ELSE removeBucket(b, c)

removeContentsCallback(b, c, err) ==
    IF op[b] = "removeContents" THEN Finish(b, c, err, <<>>)
    ELSE IF err # Null THEN destroyCallback(b, c, err)
    ELSE removeBucket(b, c)

\* a mutation of the map over contents: only the first item is picked
pickKeysHead(contents) == <<[Key |-> contents[1].Key]>>

\* _.map(contents, function (content) { return _.pick(content, 'Key'); })
pickKeys(contents) == [i \in 1..Len(contents) |-> [Key |-> contents[i].Key]]

\* a mutation of removeContents: no early return on an empty listing
removeContentsAlways(b, c, contents) ==
    Issue(b, c, "deleteObjects", [NoReq EXCEPT !.Objects = pickKeys(contents)])

\* Bucket.prototype.removeContents
removeContents(b, c, contents) ==
    IF Len(contents) = 0 THEN removeContentsCallback(b, c, Null)
    ELSE Issue(b, c, "deleteObjects", [NoReq EXCEPT !.Objects = pickKeys(contents)])

listContentsCallback(b, c, err, contents) ==
    IF op[b] = "listContents" THEN Finish(b, c, err, contents)
    ELSE IF err # Null THEN destroyCallback(b, c, err)
    ELSE removeContents(b, c, contents)

\* Bucket.prototype.listContents
listContents(b, c) == Issue(b, c, "listObjects", NoReq)

\* a mutation of verifyExistence: every error counts as 'Does not exist'
verifyExistenceErrorAny(err) == IF err # Null THEN DoesNotExist ELSE err

\* Bucket.prototype.verifyExistence: what its callback gets for headBucket's err
verifyExistenceError(err) ==
    IF err # Null /\ err.statusCode = 404 THEN DoesNotExist ELSE err

verifyExistenceCallback(b, c, err) ==
    IF op[b] = "verifyExistence" THEN Finish(b, c, err, <<>>)
    ELSE IF err # Null THEN destroyCallback(b, c, err)
    ELSE listContents(b, c)

\* Bucket.prototype.verifyExistence
verifyExistence(b, c) == Issue(b, c, "headBucket", NoReq)

\* Bucket.prototype.destroy: async.waterfall([verifyExistence, listContents,
\* removeContents, removeBucket])
destroy(b, c) == verifyExistence(b, c)

\* Bucket.prototype.deploy: async.series([destroy, create, upload])
\* a mutation of deploy: the old bucket is not destroyed first
deployWithoutDestroy(b, c) == create(b, c)

deploy(b, c) == destroy(b, c)

-----------------------------------------------------------------------------
(* Actions *)

Methods == {"deploy", "destroy", "verifyExistence", "listContents", "create",
            "makePublic", "upload"}

Quiescent == \A i \in Inst : pc[i] \in {"idle", "done"} /\ tasks[i] = {}

\* the state of the caller's view when a method is entered
Entered(b) == [rq |-> FreshRq, stages |-> <<>>, groups |-> {}, tasks |-> {},
               policy |-> policy, result |-> NoResult, puts |-> EmptyBag]

\* no listing passed
NoGiven == [contents |-> <<>>, complete |-> FALSE]

\* the caller enters method m of instance b, passing the listing contents;
\* complete says whether the listing names every object the bucket holds
Enter(b, m, contents, complete) ==
    /\ Quiescent
    /\ calls' = calls + 1
    /\ op' = [op EXCEPT ![b] = m]
    /\ last' = [inst |-> b,
                op |-> IF last.inst = 0 THEN "none" ELSE op[last.inst],
                ok |-> last.inst # 0 /\ result[last.inst].err = Null,
                given |-> given]
    /\ faulted' = [faulted EXCEPT ![b] = FALSE]
    /\ given' = [contents |-> contents, complete |-> complete]
    /\ UNCHANGED <<options, bucketName, tree, store>>

\* the body of method m starts to run
Dispatch(b, m) ==
    CASE m = "deploy" -> deploy(b, Entered(b))
      [] m = "destroy" -> destroy(b, Entered(b))
      [] m = "verifyExistence" -> verifyExistence(b, Entered(b))
      [] m = "listContents" -> listContents(b, Entered(b))
      [] m = "create" -> create(b, Entered(b))
      [] m = "makePublic" -> makePublic(b, Entered(b))
      [] m = "upload" -> upload(b, Entered(b))
      [] m = "createBucket" -> createBucket(b, Entered(b))
      [] m = "removeBucket" -> removeBucket(b, Entered(b))

\* the caller invokes method m of instance b
Call(b, m) ==
    /\ calls < MaxCalls
    /\ Enter(b, m, <<>>, FALSE)
    /\ Dispatch(b, m)

\* the request in flight is answered: the service's state, the fault flag,
\* and the handler's context with the completion recorded
Answered(b, kind, a) ==
    /\ store' = [store EXCEPT ![bucketName[b]] = a.bucket]
    /\ faulted' = [faulted EXCEPT ![b] = @ \/ a.err \in Faults(kind)]
    /\ UNCHANGED <<options, bucketName, tree, op, last, calls, given>>

Done(b, kind, a) == [Ctx(b) EXCEPT !.rq = MarkDone(@, kind, a.err)]

Bkt(b) == store[bucketName[b]]

headBucketResponse(b) ==
    /\ pc[b] = "headBucket"
    /\ \E a \in Answers("headBucket", req[b], Bkt(b), bucketName[b]) :
          /\ Answered(b, "headBucket", a)
          /\ verifyExistenceCallback(b, Done(b, "headBucket", a),
                                     verifyExistenceError(a.err))

listObjectsResponse(b) ==
    /\ pc[b] = "listObjects"
    /\ \E a \in Answers("listObjects", req[b], Bkt(b), bucketName[b]) :
          /\ Answered(b, "listObjects", a)
          /\ listContentsCallback(b, Done(b, "listObjects", a), a.err, a.data)

deleteObjectsResponse(b) ==
    /\ pc[b] = "deleteObjects"
    /\ \E a \in Answers("deleteObjects", req[b], Bkt(b), bucketName[b]) :
          /\ Answered(b, "deleteObjects", a)
          /\ removeContentsCallback(b, Done(b, "deleteObjects", a), a.err)

deleteBucketResponse(b) ==
    /\ pc[b] = "deleteBucket"
    /\ \E a \in Answers("deleteBucket", req[b], Bkt(b), bucketName[b]) :
          /\ Answered(b, "deleteBucket", a)
          /\ removeBucketCallback(b, Done(b, "deleteBucket", a), a.err)

createBucketResponse(b) ==
    /\ pc[b] = "createBucket"
    /\ \E a \in Answers("createBucket", req[b], Bkt(b), bucketName[b]) :
          /\ Answered(b, "createBucket", a)
          /\ createBucketCallback(b, Done(b, "createBucket", a), a.err)

putBucketWebsiteResponse(b) ==
    /\ pc[b] = "putBucketWebsite"
    /\ \E a \in Answers("putBucketWebsite", req[b], Bkt(b), bucketName[b]) :
          /\ Answered(b, "putBucketWebsite", a)
          /\ makeWebsiteCallback(b, Done(b, "putBucketWebsite", a), a.err)

putBucketPolicyResponse(b) ==
    /\ pc[b] = "putBucketPolicy"
    /\ \E a \in Answers("putBucketPolicy", req[b], Bkt(b), bucketName[b]) :
          /\ Answered(b, "putBucketPolicy", a)
          /\ makePublicCallback(b, Done(b, "putBucketPolicy", a), a.err)

\* an fs call of the traversal is answered
FsAnswered(b, a) ==
    /\ faulted' = [faulted EXCEPT ![b] = @ \/ a.err = EIO]
    /\ UNCHANGED <<options, bucketName, tree, store, op, last, calls, given>>

FsDone(b, t, a) ==
    [Ctx(b) EXCEPT !.rq = MarkDone(@, t.kind, a.err), !.tasks = @ \ {t}]

\* uploadDirectory, after fs.readdir: async.each(files, uploadContent, callback)
readdirDone(b) ==
    \E t \in tasks[b] :
      /\ t.kind = "readdir"
      /\ \E a \in FsAnswers("readdir", tree, t.path) :
            /\ FsAnswered(b, a)
            /\ LET c == FsDone(b, t, a)
                   files == [i \in 1..Len(a.names) |-> PathJoin(t.path, a.names[i])]
               IN  IF a.err # Null \/ Len(files) = 0
                   THEN Report(b, c, t.parent, a.err)
                   ELSE /\ Commit(b, [c EXCEPT
                              !.groups = @ \cup {[dir |-> t.path, total |-> Len(files),
                                                  completed |-> 0, called |-> FALSE,
                                                  parent |-> t.parent]},
                              !.tasks = @ \cup {Task("stat", files[i], t.path, NoPut) :
                                                    i \in 1..Len(files)},
                              !.rq = [@ EXCEPT !["stat"].issued = @ + Len(files)]])
                        /\ UNCHANGED <<pc, req>>

\* uploadContent, after fs.stat
statDone(b) ==
    \E t \in tasks[b] :
      /\ t.kind = "stat"
      /\ \E a \in FsAnswers("stat", tree, t.path) :
            /\ FsAnswered(b, a)
            /\ LET c == FsDone(b, t, a)
               IN  IF a.err # Null THEN Report(b, c, t.parent, a.err)
                   ELSE /\ Commit(b, IF a.isDirectory
                                     THEN uploadDirectory(c, t.path, t.parent)
                                     ELSE uploadFile(c, t.path, t.parent, options[b]))
                        /\ UNCHANGED <<pc, req>>

\* uploadFile, after fs.readFile: this.s3.putObject(params, callback)
readFileDone(b) ==
    \E t \in tasks[b] :
      /\ t.kind = "readFile"
      /\ \E a \in FsAnswers("readFile", tree, t.path) :
            /\ FsAnswered(b, a)
            /\ LET c == FsDone(b, t, a)
               IN  Commit(b, [c EXCEPT
                       !.tasks = @ \cup {Task("putObject", t.path, t.parent,
                                              putParams(t.params.Key, a.err, a.body,
                                                        options[b], Now(c.rq)))},
                       !.rq = MarkIssued(@, "putObject"),
                       !.puts = @ (+) SetToBag({t.path})])
            /\ UNCHANGED <<pc, req>>

putObjectResponse(b) ==
    \E t \in tasks[b] :
      /\ t.kind = "putObject"
      /\ \E a \in Answers("putObject", t.params, Bkt(b), bucketName[b]) :
            /\ Answered(b, "putObject", a)
            /\ Report(b, FsDone(b, t, a), t.parent, a.err)

-----------------------------------------------------------------------------
(* Specification: one caller, one call at a time *)

OldX == <<"x">>
OldY == <<"y">>
OldZ == <<"z">>

Old(k) == [Key |-> k, Body |-> k, CacheControl |-> Undefined]

\* what a bucket may hold before the first call
InitialBuckets ==
    {NoBucket, EmptyBucket,
     [EmptyBucket EXCEPT !.objects = {Old(OldX)}],
     [EmptyBucket EXCEPT !.objects = {Old(OldX), Old(OldY), Old(OldZ)}]}

Options ==
    [name : {<<"s">>}, env : {<<"e">>}, prefix : {Undefined},
     srcPath : {W, Wslash}, indexDocument : {Undefined, <<"i">>},
     removeExtensions : {{}, {DotH}}, noCache : {{Fa}}]

\* the instances the caller uses
Active == {1}

InitControl ==
    /\ policy = PolicyArn
    /\ op = [b \in Inst |-> "idle"]
    /\ pc = [b \in Inst |-> "idle"]
    /\ req = [b \in Inst |-> NoReq]
    /\ groups = [b \in Inst |-> {}]
    /\ tasks = [b \in Inst |-> {}]
    /\ result = [b \in Inst |-> NoResult]
    /\ rq = [b \in Inst |-> FreshRq]
    /\ faulted = [b \in Inst |-> FALSE]
    /\ stages = [b \in Inst |-> <<>>]
    /\ last = [inst |-> 0, op |-> "none", ok |-> FALSE, given |-> NoGiven]
    /\ calls = 0
    /\ given = NoGiven
    /\ puts = [b \in Inst |-> EmptyBag]

\* new Bucket(options, s3config) for every instance
Init ==
    /\ \E o \in Options : options = [b \in Inst |-> o]
    /\ bucketName = [b \in Inst |-> createBucketName(options[b])]
    /\ tree \in Trees
    /\ \E bk \in InitialBuckets :
          store = [n \in {bucketName[b] : b \in Inst} |-> bk]
    /\ InitControl

Step(b) ==
    \/ \E m \in Methods : Call(b, m)
    \/ headBucketResponse(b)
    \/ listObjectsResponse(b)
    \/ deleteObjectsResponse(b)
    \/ deleteBucketResponse(b)
    \/ createBucketResponse(b)
    \/ putBucketWebsiteResponse(b)
    \/ putBucketPolicyResponse(b)
    \/ readdirDone(b)
    \/ statDone(b)
    \/ readFileDone(b)
    \/ putObjectResponse(b)

Next == \E b \in Active : Step(b)

Spec == Init /\ [][Next]_vars

-----------------------------------------------------------------------------
(* Specification of construction alone: the bucket name of every choice of  *)
(* name, env and prefix                                                     *)

NameChars == {"s", "-"}

\* the strings over NameChars of length at most MaxNameLen
NameStrings == UNION {[1..n -> NameChars] : n \in 0..MaxNameLen}

NameOptions ==
    [name : NameStrings \ {<<>>}, env : NameStrings \cup {Undefined},
     prefix : NameStrings \cup {Undefined},
     srcPath : {W}, indexDocument : {Undefined},
     removeExtensions : {{}}, noCache : {{}}]

\* not constructed yet
NoName == <<>>

InitName ==
    /\ \E o \in NameOptions : options = [b \in Inst |-> o]
    /\ bucketName = [b \in Inst |-> NoName]
    /\ tree = TreeEmpty
    /\ store = [n \in {NoName} |-> NoBucket]
    /\ InitControl

\* Bucket: this.bucketName = this._createBucketName(options)
Construct(b) ==
    /\ bucketName[b] = NoName
    /\ bucketName' = [bucketName EXCEPT ![b] = createBucketName(options[b])]
    /\ UNCHANGED <<options, policy, tree, store, op, pc, req, groups, tasks,
                   result, rq, faulted, stages, last, calls, given, puts>>

NextName == \E b \in Inst : Construct(b)

SpecName == InitName /\ [][NextName]_vars

-----------------------------------------------------------------------------
(* Specification of the methods called one by one, as the tests call them:  *)
(* verifyExistence, listContents, removeContents, createBucket,             *)
(* removeBucket, create                                                     *)

MethodsAlone == {"verifyExistence", "listContents", "createBucket",
                 "removeBucket", "create"}

\* the caller invokes method m of instance b
MethodCall(b, m) ==
    /\ calls < MaxMethodCalls
    /\ Enter(b, m, <<>>, FALSE)
    /\ Dispatch(b, m)

ListedKeys(data) == {data[i].Key : i \in 1..Len(data)}

\* the call before this one was a listContents that returned a listing
Listed(b) == op[b] = "listContents" /\ pc[b] = "done" /\ result[b].err = Null

\* the listings the caller passes to removeContents: none, what the
\* listContents just before returned, or a listing of one key
Listings(b) ==
    {<<>>, <<Content(OldX)>>} \cup (IF Listed(b) THEN {result[b].data} ELSE {})

\* the caller invokes removeContents(contents, callback) of instance b
removeContentsCall(b, contents) ==
    /\ calls < MaxMethodCalls
    /\ Enter(b, "removeContents", contents,
             /\ Listed(b)
             /\ contents = result[b].data
             /\ ListedKeys(contents) = Keys(Bkt(b)))
    /\ pc' = [pc EXCEPT ![b] = "removeContents"]
    /\ req' = [req EXCEPT ![b] = NoReq]
    /\ Commit(b, Entered(b))

\* the body of removeContents runs
removeContentsRun(b) ==
    /\ pc[b] = "removeContents"
    /\ removeContents(b, Ctx(b), given.contents)
    /\ UNCHANGED <<options, bucketName, tree, store, op, faulted, last, calls, given>>

MethodOptions ==
    [name : {<<"s">>}, env : {<<"e">>}, prefix : {Undefined},
     srcPath : {W}, indexDocument : {Undefined, <<"i">>},
     removeExtensions : {{}}, noCache : {{}}]

InitMethods ==
    /\ \E o \in MethodOptions : options = [b \in Inst |-> o]
    /\ bucketName = [b \in Inst |-> createBucketName(options[b])]
    /\ tree = TreeEmpty
    /\ \E bk \in InitialBuckets :
          store = [n \in {bucketName[b] : b \in Inst} |-> bk]
    /\ InitControl

StepMethods(b) ==
    \/ \E m \in MethodsAlone : MethodCall(b, m)
    \/ \E contents \in Listings(b) : removeContentsCall(b, contents)
    \/ removeContentsRun(b)
    \/ headBucketResponse(b)
    \/ listObjectsResponse(b)
    \/ deleteObjectsResponse(b)
    \/ deleteBucketResponse(b)
    \/ createBucketResponse(b)
    \/ putBucketWebsiteResponse(b)
    \/ putBucketPolicyResponse(b)

NextMethods == \E b \in Active : StepMethods(b)

SpecMethods == InitMethods /\ [][NextMethods]_vars

-----------------------------------------------------------------------------
(* Specification of deploy alone, called again and again, on source         *)
(* directories of up to three entries                                       *)

\* a, a.h and b side by side
TreeThree ==
    {Dir(W, <<Fa, Fah, Fb>>), File(PathJoin(W, Fa)), File(PathJoin(W, Fah)),
     File(PathJoin(W, Fb))}

DeployOptions ==
    [name : {<<"s">>}, env : {<<"e">>}, prefix : {Undefined},
     srcPath : {W}, indexDocument : {Undefined},
     removeExtensions : {{}, {DotH}}, noCache : {{Fa}}]

InitDeploy ==
    /\ \E o \in DeployOptions : options = [b \in Inst |-> o]
    /\ bucketName = [b \in Inst |-> createBucketName(options[b])]
    /\ tree \in {TreeThree, TreeNested}
    /\ \E bk \in InitialBuckets :
          store = [n \in {bucketName[b] : b \in Inst} |-> bk]
    /\ InitControl

StepDeploy(b) ==
    \/ Call(b, "deploy")
    \/ headBucketResponse(b)
    \/ listObjectsResponse(b)
    \/ deleteObjectsResponse(b)
    \/ deleteBucketResponse(b)
    \/ createBucketResponse(b)
    \/ putBucketWebsiteResponse(b)
    \/ putBucketPolicyResponse(b)
    \/ readdirDone(b)
    \/ statDone(b)
    \/ readFileDone(b)
    \/ putObjectResponse(b)

NextDeploy == \E b \in Active : StepDeploy(b)

SpecDeploy == InitDeploy /\ [][NextDeploy]_vars

-----------------------------------------------------------------------------
(* Specification of two deploys of one process running at the same time on  *)
(* the same bucket name, each with its own Bucket instance: the second's    *)
(* source directory is the first's, or a subdirectory of it                 *)

\* deploy(options, s3config, callback): new Bucket(options, s3config).deploy
\* is entered while the other deploy may be under way
deployConcurrently(b) ==
    /\ pc[b] = "idle"
    /\ calls' = calls + 1
    /\ op' = [op EXCEPT ![b] = "deploy"]
    /\ last' = [last EXCEPT !.inst = b]
    /\ faulted' = [faulted EXCEPT ![b] = FALSE]
    /\ UNCHANGED <<options, bucketName, tree, store, given>>
    /\ deploy(b, Entered(b))

TwoOptions ==
    [name : {<<"s">>}, env : {<<"e">>}, prefix : {Undefined},
     srcPath : {W, PathJoin(W, Dd)}, indexDocument : {Undefined},
     removeExtensions : {{}}, noCache : {{}}]

InitTwo ==
    /\ options \in [Inst -> TwoOptions]
    /\ options[1].srcPath = W
    /\ bucketName = [b \in Inst |-> createBucketName(options[b])]
    /\ tree = TreeNested
    /\ \E bk \in {NoBucket,
                   [EmptyBucket EXCEPT !.objects = {Old(OldX), Old(OldY), Old(OldZ)}]} :
          store = [n \in {bucketName[b] : b \in Inst} |-> bk]
    /\ InitControl

StepTwo(b) ==
    \/ deployConcurrently(b)
    \/ headBucketResponse(b)
    \/ listObjectsResponse(b)
    \/ deleteObjectsResponse(b)
    \/ deleteBucketResponse(b)
    \/ createBucketResponse(b)
    \/ putBucketWebsiteResponse(b)
    \/ putBucketPolicyResponse(b)
    \/ readdirDone(b)
    \/ statDone(b)
    \/ readFileDone(b)
    \/ putObjectResponse(b)

NextTwo == \E b \in Inst : StepTwo(b)

SpecTwo == InitTwo /\ [][NextTwo]_vars

-----------------------------------------------------------------------------
(* The legacy module: clear(name, next), lib/s3-site.js *)

\* the last task of the waterfall, and the waterfall's final callback: next
clearDeleteBucketCallback(b, c, err) == Finish(b, c, err, <<>>)

clearDeleteBucket(b, c) == Issue(b, c, "deleteBucket", NoReq)

\* the callback handed to s3.deleteObjects is next, clear's own callback,
\* the task's callback being named nest
clearDeleteObjectsCallback(b, c, err) == Finish(b, c, err, <<>>)

\* function deleteObjects(res, nest): if (!res.Contents[0]) { return next(); }
clearDeleteObjects(b, c, Contents) ==
    IF Contents = <<>> THEN Finish(b, c, Null, <<>>)
    ELSE Issue(b, c, "deleteObjects",
               [NoReq EXCEPT !.Objects =
                   [i \in 1..Len(Contents) |-> [Key |-> Contents[i].Key]]])

\* the waterfall after s3.listObjects(bucket, next)
clearListObjectsCallback(b, c, err, data) ==
    IF err # Null THEN Finish(b, c, err, <<>>)
    ELSE clearDeleteObjects(b, c, data)

clearListObjects(b, c) == Issue(b, c, "listObjects", NoReq)

\* next(err && err.statusCode == 404 ? null : err)
clearHeadBucketCallback(b, c, err) ==
    LET e == IF err # Null /\ err.statusCode = 404 THEN Null ELSE err
    IN  IF e # Null THEN Finish(b, c, e, <<>>)
        ELSE clearListObjects(b, c)

clear(b, c) == Issue(b, c, "headBucket", NoReq)

\* a caller invokes clear(name, next)
clearCall(b) ==
    /\ calls < MaxCalls
    /\ Enter(b, "clear", <<>>, FALSE)
    /\ clear(b, Entered(b))

ClearKinds == {"headBucket", "listObjects", "deleteObjects", "deleteBucket"}

\* the service answers the request of clear in flight and the callback that
\* clear passed with it runs
clearResponse(b) ==
    /\ op[b] = "clear"
    /\ pc[b] \in ClearKinds
    /\ \E a \in Answers(pc[b], req[b], Bkt(b), bucketName[b]) :
          /\ Answered(b, pc[b], a)
          /\ LET c == Done(b, pc[b], a)
             IN  CASE pc[b] = "headBucket" -> clearHeadBucketCallback(b, c, a.err)
                   [] pc[b] = "listObjects" ->
                        clearListObjectsCallback(b, c, a.err, a.data)
                   [] pc[b] = "deleteObjects" ->
                        clearDeleteObjectsCallback(b, c, a.err)
                   [] pc[b] = "deleteBucket" ->
                        clearDeleteBucketCallback(b, c, a.err)

ClearBuckets ==
    InitialBuckets \cup {[EmptyBucket EXCEPT !.objects = {Old(OldX), Old(OldY)}]}

\* the name clear is given: prefix-env-name of deploy's config
ClearOptions ==
    [name : {<<"s">>, <<"t">>}, env : {<<"e">>}, prefix : {<<"p">>},
     srcPath : {W}, indexDocument : {Undefined}, removeExtensions : {{}},
     noCache : {{}}]

InitClear ==
    /\ \E o \in ClearOptions : options = [b \in Inst |-> o]
    /\ bucketName = [b \in Inst |-> createBucketName(options[b])]
    /\ tree = TreeEmpty
    /\ \E bk \in ClearBuckets :
          store = [n \in {bucketName[b] : b \in Inst} |-> bk]
    /\ InitControl

NextClear == \E b \in Active : clearCall(b) \/ clearResponse(b)

SpecClear == InitClear /\ [][NextClear]_vars

-----------------------------------------------------------------------------
(* Claims *)

\* a part that was given and is not the empty string
Given(s) == s # Undefined /\ Len(s) > 0

\* C7: for every name (non-empty), env and prefix (each possibly empty or
\* absent), the bucket name computed at construction is the hyphen-join of the
\* non-empty parts in the order prefix, env, name.
C7_BucketNameIsHyphenJoin ==
    \A b \in Inst :
        bucketName[b] # NoName =>
            bucketName[b] =
                Join(SelectSeq(<<options[b].prefix, options[b].env, options[b].name>>,
                               Given),
                     <<"-">>)

\* C7 witness: an instance constructed with a prefix, an empty env and a name
C7_Witness ==
    \E b \in Inst :
        /\ bucketName[b] # NoName
        /\ Given(options[b].prefix)
        /\ options[b].env = <<>>
        /\ Len(bucketName[b]) = Len(options[b].prefix) + 1 + Len(options[b].name)

DestroyKinds == <<"headBucket", "listObjects", "deleteObjects", "deleteBucket">>
CreateKinds == <<"createBucket", "putBucketWebsite", "putBucketPolicy">>
UploadKinds == {"readdir", "stat", "readFile", "putObject"}

Returned(b) == pc[b] = "done"

\* request i of destroy was answered with an error that is not headBucket's 404
DestroyFailed(b, i) ==
    /\ rq[b][DestroyKinds[i]].err # Null
    /\ ~(i = 1 /\ rq[b][DestroyKinds[i]].err.statusCode = 404)

CreateFailed(b, i) == rq[b][CreateKinds[i]].err # Null

\* every request of the sequence that was issued has completed
AllCompleted(b, kinds) ==
    \A i \in 1..Len(kinds) : rq[b][kinds[i]].issued = rq[b][kinds[i]].done

NoneIssued(b, kinds) == \A k \in kinds : rq[b][k].issued = 0

Range(seq) == {seq[i] : i \in 1..Len(seq)}

\* C2: in every execution of deploy the stages run in the order destroy,
\* create, upload: no request of create is issued before destroy's last request
\* has completed and destroy has called back without error, no fs call or
\* putObject is issued before putBucketPolicy has completed without error; when
\* destroy fails no create request and no put is issued, when create fails no
\* put is issued, and deploy's callback gets the error of the first failing
\* stage (no error when none failed), once.
C2_DeployStagesInOrder ==
    \A b \in Inst :
        op[b] = "deploy" =>
            /\ ~NoneIssued(b, Range(CreateKinds)) =>
                  /\ AllCompleted(b, DestroyKinds)
                  /\ \A i \in 1..4 : ~DestroyFailed(b, i)
                  /\ Len(stages[b]) >= 1
                  /\ stages[b][1] = [stage |-> "destroy", err |-> Null]
            /\ ~NoneIssued(b, UploadKinds) =>
                  /\ AllCompleted(b, CreateKinds)
                  /\ rq[b]["putBucketPolicy"].done = 1
                  /\ \A i \in 1..3 : ~CreateFailed(b, i)
                  /\ Len(stages[b]) >= 2
                  /\ stages[b][2] = [stage |-> "create", err |-> Null]
            /\ \A i \in 1..4 :
                  DestroyFailed(b, i) =>
                      /\ NoneIssued(b, Range(CreateKinds) \cup UploadKinds)
                      /\ Returned(b)
                      /\ result[b].err = rq[b][DestroyKinds[i]].err
            /\ \A i \in 1..3 :
                  CreateFailed(b, i) =>
                      /\ NoneIssued(b, UploadKinds)
                      /\ Returned(b)
                      /\ result[b].err = rq[b][CreateKinds[i]].err
            /\ \A i \in 1..Len(stages[b]) :
                  /\ stages[b][i].stage = <<"destroy", "create", "upload">>[i]
                  /\ stages[b][i].err # Null =>
                        /\ Len(stages[b]) = i
                        /\ result[b].err = stages[b][i].err
            /\ result[b].n <= 1
            /\ Returned(b) <=> result[b].n = 1
            /\ (Returned(b) /\ result[b].err = Null) =>
                  /\ Len(stages[b]) = 3
                  /\ \A i \in 1..3 : stages[b][i].err = Null

\* C2 witness: a deploy that reported success after putting an object
C2_Witness ==
    \E b \in Inst :
        /\ op[b] = "deploy"
        /\ Returned(b)
        /\ result[b].err = Null
        /\ rq[b]["putObject"].done > 0
        /\ rq[b]["deleteBucket"].done = 1

\* C3: destroy on a bucket that does not exist (headBucket answers 404) reports
\* success and issues no listObjects, deleteObjects or deleteBucket; a destroy
\* that follows a successful destroy, with no fault injected, reports success.
C3_DestroyOfMissingBucket ==
    \A b \in Inst :
        op[b] = "destroy" =>
            /\ (rq[b]["headBucket"].err # Null
                  /\ rq[b]["headBucket"].err.statusCode = 404) =>
                  /\ Returned(b)
                  /\ result[b] = [n |-> 1, err |-> Null, data |-> <<>>]
                  /\ NoneIssued(b, {"listObjects", "deleteObjects", "deleteBucket"})
            /\ (last.op = "destroy" /\ last.ok /\ Returned(b) /\ ~faulted[b]) =>
                  /\ result[b].err = Null
                  /\ rq[b]["headBucket"].err = E404

\* C3 witness: a second destroy in a row that met the 404
C3_Witness ==
    \E b \in Inst :
        /\ op[b] = "destroy"
        /\ last.op = "destroy"
        /\ last.ok
        /\ Returned(b)
        /\ rq[b]["headBucket"].err = E404
        /\ result[b].err = Null

\* C5: destroy issues headBucket, listObjects, deleteObjects (only when the
\* listing is not empty), deleteBucket in this order, each after the one before
\* it completed without error; an error other than headBucket's 404 keeps the
\* later requests from being issued and is passed unchanged to destroy's
\* callback.
C5_DestroyRequestsInOrder ==
    \A b \in Inst :
        op[b] \in {"destroy", "deploy"} =>
            /\ \A i \in 2..4 :
                  rq[b][DestroyKinds[i]].issued > 0 =>
                      \A j \in 1..(i - 1) :
                          /\ rq[b][DestroyKinds[j]].issued = rq[b][DestroyKinds[j]].done
                          /\ rq[b][DestroyKinds[j]].err = Null
                          /\ j # 3 => rq[b][DestroyKinds[j]].done = 1
            /\ pc[b] = "deleteObjects" =>
                  /\ req[b].Objects # <<>>
                  /\ req[b].Objects = pickKeys(ListedContents(Bkt(b)))
            /\ (pc[b] = "deleteBucket" /\ rq[b]["deleteObjects"].issued = 0) =>
                  ListedContents(Bkt(b)) = <<>>
            /\ \A i \in 1..4 :
                  DestroyFailed(b, i) =>
                      /\ \A j \in (i + 1)..4 : rq[b][DestroyKinds[j]].issued = 0
                      /\ stages[b] = <<[stage |-> "destroy",
                                        err |-> rq[b][DestroyKinds[i]].err]>>
                      /\ Returned(b)
                      /\ result[b] = [n |-> 1, err |-> rq[b][DestroyKinds[i]].err,
                                      data |-> <<>>]

\* C5 witness: a destroy that went through all four requests
C5_Witness ==
    \E b \in Inst :
        /\ op[b] = "destroy"
        /\ Returned(b)
        /\ \A i \in 1..4 : rq[b][DestroyKinds[i]].done = 1
        /\ result[b].err = Null

\* C6: verifyExistence passes 'Does not exist' when headBucket's error has
\* status code 404, passes any other error unchanged, and passes no error when
\* headBucket answered none.
C6_VerifyExistenceOutcomes ==
    \A b \in Inst :
        (op[b] = "verifyExistence" /\ Returned(b)) =>
            LET h == rq[b]["headBucket"].err
            IN  /\ result[b].n = 1
                /\ (h # Null /\ h.statusCode = 404) => result[b].err = DoesNotExist
                /\ (h # Null /\ h.statusCode # 404) => result[b].err = h
                /\ h = Null => result[b].err = Null

\* C6 witness: a verifyExistence that passed an error other than the 404 on
C6_Witness ==
    \E b \in Inst :
        /\ op[b] = "verifyExistence"
        /\ Returned(b)
        /\ result[b].err = NetworkingError

IsSuffix(e, s) == Len(e) <= Len(s) /\ SubSeq(s, Len(s) - Len(e) + 1, Len(s)) = e

\* a file's path relative to the source directory, without a leading separator
RelativePath(f, srcPath) == SubSeq(f, Len(Resolve(srcPath)) + 2, Len(f))

\* the relative path with the suffix that is in removeExtensions taken off
ExpectedKey(f, o) ==
    LET rel == RelativePath(f, o.srcPath)
        ex == {e \in o.removeExtensions : IsSuffix(e, rel)}
    IN  IF ex = {} THEN rel
        ELSE SubSeq(rel, 1, Len(rel) - Len(CHOOSE e \in ex : TRUE))

\* C1: after deploy reported success, a listContents that is answered without
\* error returns exactly one object per regular file under srcPath and nothing
\* else, each key the file's path relative to srcPath with a removeExtensions
\* suffix stripped; no object from before the deploy is left.
C1_DeployThenListContents ==
    \A b \in Inst :
        (op[b] = "listContents" /\ Returned(b) /\ result[b].err = Null
           /\ last.op = "deploy" /\ last.ok) =>
            /\ Len(result[b].data) = Cardinality(RegularFiles(tree))
            /\ ListedKeys(result[b].data) =
                   {ExpectedKey(f, options[b]) : f \in RegularFiles(tree)}

\* C4: destroy run on an existing bucket, whatever objects it holds, with no
\* fault injected, reports success and leaves no bucket; a verifyExistence
\* issued after the successful destroy reports 'Does not exist'.
C4_DestroyRemovesBucketAndContents ==
    \A b \in Inst :
        /\ (op[b] = "destroy" /\ Returned(b) /\ ~faulted[b]
              /\ rq[b]["headBucket"].done = 1 /\ rq[b]["headBucket"].err = Null) =>
              /\ result[b].err = Null
              /\ ~Bkt(b).exists
        /\ (op[b] = "verifyExistence" /\ Returned(b) /\ ~faulted[b]
              /\ last.op = "destroy" /\ last.ok) =>
              result[b].err = DoesNotExist

\* the policy that grants public read on every object of the bucket
PublicRead(name) == PolicyArn \o name \o <<"/", "*">>

\* C8: create issues createBucket, putBucketWebsite, putBucketPolicy in this
\* order, each after the one before it completed without error; the first
\* failure keeps the later requests from being issued and is passed to create's
\* callback; after a successful create or deploy the bucket exists, its index
\* document is options.indexDocument or 'index.html', and it carries the
\* public-read policy.
C8_CreateInOrderAndConfigured ==
    \A b \in Inst :
        op[b] \in {"create", "deploy"} =>
            /\ \A i \in 2..3 :
                  rq[b][CreateKinds[i]].issued > 0 =>
                      \A j \in 1..(i - 1) :
                          /\ rq[b][CreateKinds[j]].done = 1
                          /\ rq[b][CreateKinds[j]].err = Null
            /\ \A i \in 1..3 :
                  CreateFailed(b, i) =>
                      /\ \A j \in (i + 1)..3 : rq[b][CreateKinds[j]].issued = 0
                      /\ stages[b][Len(stages[b])] =
                             [stage |-> "create", err |-> rq[b][CreateKinds[i]].err]
                      /\ Returned(b)
                      /\ result[b].err = rq[b][CreateKinds[i]].err
            /\ (Returned(b) /\ result[b].err = Null) =>
                  /\ Bkt(b).exists
                  /\ Bkt(b).website = IF Given(options[b].indexDocument)
                                      THEN options[b].indexDocument ELSE IndexHtml
                  /\ Bkt(b).policy = PublicRead(bucketName[b])

\* C9: every makePublic submits a policy whose resource is the template's
\* original resource followed by this instance's bucket name and '/*'.
C9_PolicyResourceOfThisBucket ==
    \A b \in Inst :
        pc[b] = "putBucketPolicy" => req[b].Resource = PublicRead(bucketName[b])

\* C10: every failure of readdir, stat or readFile during upload makes upload
\* report an error, and no putObject is issued for a file whose read failed.
C10_LocalFailuresReported ==
    \A b \in Inst :
        op[b] \in {"upload", "deploy"} =>
            /\ \A t \in tasks[b] : t.kind = "putObject" => t.params.Body # Undefined
            /\ (Returned(b) /\ \E k \in {"readdir", "stat", "readFile"} :
                                   rq[b][k].err # Null) =>
                  result[b].err # Null

\* C11: whenever upload (uploadDirectory of srcPath), alone or as deploy's last
\* stage, calls back without error, every fs call and every putObject of the
\* traversal has completed, one putObject per regular file at any depth was
\* issued and each completed without error, every file's key (when not empty)
\* names an object of the bucket, in every interleaving of the siblings; a
\* directory with no entries calls back without error and without any put.
C11_UploadSucceedsOnlyIfEveryChildDid ==
    \A b \in Inst :
        (op[b] \in {"upload", "deploy"} /\ Returned(b) /\ result[b].err = Null) =>
            /\ tasks[b] = {}
            /\ \A k \in UploadKinds : rq[b][k].issued = rq[b][k].done
            /\ rq[b]["putObject"].done = Cardinality(RegularFiles(tree))
            /\ rq[b]["putObject"].err = Null
            /\ \A f \in RegularFiles(tree) :
                  fileKey(f, options[b]) # <<>> =>
                      fileKey(f, options[b]) \in Keys(Bkt(b))
            /\ tree = TreeEmpty => rq[b]["putObject"].issued = 0

\* C11 witness: an upload of a file beside a directory holding a file called
\* back without error after both puts
C11_Witness ==
    \E b \in Inst :
        /\ op[b] = "upload"
        /\ Returned(b)
        /\ result[b].err = Null
        /\ tree = TreeNested
        /\ rq[b]["putObject"].done = 2

\* C12: for every file under srcPath, written with or without a trailing
\* separator, the key uploadFile computes (the key of the readFile it starts and
\* of the putObject it issues) is the file's path relative to srcPath without a
\* leading separator, with the suffix that is in removeExtensions taken off.
C12_KeyIsRelativePath ==
    \A b \in Inst :
        \A t \in tasks[b] :
            t.kind \in {"readFile", "putObject"} =>
                t.params.Key = ExpectedKey(t.path, options[b])

\* C13: the putObject request uploadFile issues carries CacheControl
\* 'no-cache, no-store, must-revalidate' and an Expires timestamp when its key
\* (after extension stripping) is in noCache, and neither field otherwise; the
\* timestamp is the time at which the request is issued, and is never later
\* than the current time while the request is in flight.
C13_NoCacheFieldsOfPut ==
    [][\A b \in Inst :
          \A t \in tasks'[b] :
              t.kind = "putObject" =>
                  /\ t.params.Key = fileKey(t.path, options[b])
                  /\ t.params.Key \in options[b].noCache =>
                        /\ t.params.CacheControl = NoCacheControl
                        /\ \E at \in 0..Now(rq'[b]) : t.params.Expires = {at}
                        /\ t \notin tasks[b] => t.params.Expires = {Now(rq'[b])}
                  /\ t.params.Key \notin options[b].noCache =>
                        /\ t.params.CacheControl = Undefined
                        /\ t.params.Expires = {}]_vars

\* C13 witness: a put with the no-cache fields is in flight beside a put
\* without them, and the clock has moved on since the first was issued
C13_Witness ==
    \E b \in Inst :
        \E t, u \in tasks[b] :
            /\ t.kind = "putObject"
            /\ u.kind = "putObject"
            /\ t.params.Key \in options[b].noCache
            /\ t.params.Expires # {Now(rq[b])}
            /\ u.params.Key \notin options[b].noCache

\* C14: removeContents called with an empty listing invokes its callback
\* once, without error, issues no request at all and leaves every bucket of
\* the service as it was.
C14_RemoveContentsOfEmptyListing ==
    [][\A b \in Inst :
          (pc[b] = "removeContents" /\ given.contents = <<>>) =>
              /\ pc'[b] = "done"
              /\ result'[b] = [n |-> 1, err |-> Null, data |-> <<>>]
              /\ \A k \in Kinds : rq'[b][k].issued = 0
              /\ store' = store]_vars

\* C14 witness: a removeContents with the empty listing that listContents
\* returned has called back, the bucket existing
C14_Witness ==
    \E b \in Inst :
        /\ op[b] = "removeContents"
        /\ given.contents = <<>>
        /\ last.op = "listContents"
        /\ last.ok
        /\ Returned(b)
        /\ Bkt(b).exists

\* C15: removeContents called with a non-empty listing issues one
\* deleteObjects request and no other request; the request's object list holds
\* the Key of every item of the listing, in the listing's order, and nothing
\* else; its callback gets what the request answered, once, and on success no
\* key of the listing is left in the bucket.  When the listing was what the
\* listContents before it returned and named every object of the bucket, the
\* listContents that follows a successful removeContents returns an empty
\* sequence.
C15_RemoveContentsDeletesListing ==
    \A b \in Inst :
        /\ (op[b] = "removeContents" /\ given.contents # <<>>
               /\ pc[b] # "removeContents") =>
              /\ rq[b]["deleteObjects"].issued = 1
              /\ \A k \in Kinds \ {"deleteObjects"} : rq[b][k].issued = 0
              /\ pc[b] \in {"deleteObjects", "done"}
              /\ pc[b] = "deleteObjects" =>
                    /\ Len(req[b].Objects) = Len(given.contents)
                    /\ \A i \in 1..Len(given.contents) :
                          req[b].Objects[i] = [Key |-> given.contents[i].Key]
                    /\ result[b].n = 0
              /\ Returned(b) =>
                    /\ result[b] = [n |-> 1, err |-> rq[b]["deleteObjects"].err,
                                    data |-> <<>>]
                    /\ result[b].err = Null =>
                          ListedKeys(given.contents) \cap Keys(Bkt(b)) = {}
        /\ (op[b] = "listContents" /\ Returned(b) /\ result[b].err = Null
               /\ last.op = "removeContents" /\ last.ok /\ last.given.complete) =>
              result[b].data = <<>>

\* C15 witness: listContents returned every object of the bucket,
\* removeContents was given that listing and succeeded, and the listContents
\* after it has returned
C15_Witness ==
    \E b \in Inst :
        /\ op[b] = "listContents"
        /\ Returned(b)
        /\ result[b].err = Null
        /\ last.op = "removeContents"
        /\ last.ok
        /\ last.given.complete
        /\ last.given.contents # <<>>
        /\ Bkt(b).exists

\* C16: with no fault injected, verifyExistence after a successful createBucket
\* or create reports no error; removeBucket right after a successful
\* createBucket or create succeeds and leaves no bucket, as every successful
\* removeBucket does; verifyExistence after a successful removeBucket reports
\* 'Does not exist'.
C16_CreateThenRemoveBucket ==
    \A b \in Inst :
        /\ (op[b] = "verifyExistence" /\ Returned(b) /\ ~faulted[b]
               /\ last.op \in {"createBucket", "create"} /\ last.ok) =>
              result[b].err = Null
        /\ (op[b] = "removeBucket" /\ Returned(b) /\ ~faulted[b]
               /\ last.op \in {"createBucket", "create"} /\ last.ok) =>
              result[b].err = Null
        /\ (op[b] = "removeBucket" /\ Returned(b) /\ result[b].err = Null) =>
              Bkt(b) = NoBucket
        /\ (op[b] = "verifyExistence" /\ Returned(b) /\ ~faulted[b]
               /\ last.op = "removeBucket" /\ last.ok) =>
              result[b].err = DoesNotExist

\* C16 witness: the third call, a verifyExistence after a removeBucket that
\* succeeded, reported 'Does not exist'
C16_Witness ==
    \E b \in Inst :
        /\ op[b] = "verifyExistence"
        /\ calls = 3
        /\ last.op = "removeBucket"
        /\ last.ok
        /\ Returned(b)
        /\ result[b].err = DoesNotExist

RequestKinds == Kinds \ {"readdir", "stat", "readFile", "putObject"}

\* C17: in every execution of deploy, destroy, create and upload (which is
\* uploadDirectory of srcPath) the caller's callback is invoked at most once;
\* as long as it has not been invoked a request or an fs call is in flight
\* whose completion goes on with the method, so no execution ends without it;
\* it gets no error or one error, and an error only when some request or fs
\* call failed; this holds when several concurrent siblings fail.
C17_CallbackExactlyOnce ==
    \A b \in Inst :
        op[b] \in {"deploy", "destroy", "create", "upload"} =>
            /\ result[b].n <= 1
            /\ Returned(b) <=> result[b].n = 1
            /\ ~Returned(b) =>
                  \/ pc[b] \in RequestKinds
                  \/ pc[b] = "upload" /\ tasks[b] # {}
            /\ (Returned(b) /\ result[b].err # Null) =>
                  \E k \in Kinds : rq[b][k].err # Null

\* C17 witness: an upload has called back with an error, a stat and a put of
\* two siblings have both failed, and nothing is in flight any more
C17_Witness ==
    \E b \in Inst :
        /\ op[b] = "upload"
        /\ Returned(b)
        /\ result[b].n = 1
        /\ rq[b]["stat"].err # Null
        /\ rq[b]["putObject"].err # Null
        /\ tasks[b] = {}

\* upload has passed an error to its callback in this call
UploadReportedError(b) ==
    \E i \in 1..Len(stages[b]) :
        stages[b][i].stage = "upload" /\ stages[b][i].err # Null

\* C18: once upload has passed an error to its callback, no readdir, stat,
\* readFile or putObject is started any more in that call.
C18_NothingStartedAfterError ==
    [][\A b \in Inst :
          (UploadReportedError(b) /\ UploadReportedError(b)') =>
              \A k \in UploadKinds : rq'[b][k].issued = rq[b][k].issued]_vars

\* C19: two distinct regular files under srcPath never get the same object
\* key from uploadFile, whatever removeExtensions holds, and after a deploy
\* that reported success the bucket holds as many objects as there are
\* regular files under srcPath.
C19_DistinctFilesDistinctKeys ==
    \A b \in Inst :
        /\ \A t, u \in tasks[b] :
              (t.kind \in {"readFile", "putObject"}
                 /\ u.kind \in {"readFile", "putObject"}
                 /\ t.path # u.path) =>
                  t.params.Key # u.params.Key
        /\ (op[b] = "deploy" /\ Returned(b) /\ result[b].err = Null) =>
              Cardinality(Bkt(b).objects) = Cardinality(RegularFiles(tree))

\* C20: whenever no call is in progress, after any sequence of deploy, create
\* and makePublic calls, the policy template loaded from policy.json has the
\* value it was loaded with, and every instance has the options and the bucket
\* name it was constructed with.
C20_NoLocalStateOutlivesCall ==
    (\A b \in Inst : pc[b] \in {"idle", "done"}) =>
        /\ policy = PolicyArn
        /\ \A b \in Inst : bucketName[b] = createBucketName(options[b])

\* create or upload has passed an error to deploy's series in this call
DeployFailedAfterDestroy(b) ==
    /\ op[b] = "deploy"
    /\ \E i \in 1..Len(stages[b]) :
          stages[b][i].stage \in {"create", "upload"} /\ stages[b][i].err # Null

\* C21: once create or upload has failed inside deploy, no deleteObjects and no
\* deleteBucket request is issued in that call, the bucket goes on existing if
\* it did, and every object the bucket held at the failure stays in it as it
\* was.
C21_NoRollbackAfterFailure ==
    [][\A b \in Inst :
          (DeployFailedAfterDestroy(b) /\ DeployFailedAfterDestroy(b)') =>
              /\ rq'[b]["deleteObjects"].issued = rq[b]["deleteObjects"].issued
              /\ rq'[b]["deleteBucket"].issued = rq[b]["deleteBucket"].issued
              /\ store'[bucketName[b]].exists = Bkt(b).exists
              /\ Bkt(b).objects \subseteq store'[bucketName[b]].objects]_vars

\* C22: within one deploy each of headBucket, listObjects, deleteObjects,
\* deleteBucket, createBucket, putBucketWebsite and putBucketPolicy is issued
\* at most once, and putObject is issued at most once for each regular file
\* under srcPath and for nothing else, whether requests succeed or fail.
C22_NothingIsRetried ==
    \A b \in Inst :
        op[b] = "deploy" =>
            /\ \A k \in RequestKinds : rq[b][k].issued <= 1
            /\ \A f \in BagToSet(puts[b]) :
                  /\ f \in RegularFiles(tree)
                  /\ CopiesIn(f, puts[b]) = 1
            /\ rq[b]["putObject"].issued = BagCardinality(puts[b])

\* C22 witness: a deploy in which a put failed has called back, three puts
\* were issued and nothing is in flight any more
C22_Witness ==
    \E b \in Inst :
        /\ op[b] = "deploy"
        /\ Returned(b)
        /\ rq[b]["putObject"].err # Null
        /\ BagCardinality(puts[b]) = 3
        /\ tasks[b] = {}

\* C23: when the bucket holds objects at the moment the deleteBucket of
\* destroy (here deploy's first stage) is answered, because the listing was
\* cut short or because objects were put after it, the request fails, destroy
\* passes that error on at once, to deploy's callback, no request is issued,
\* and the bucket and its objects are as before.
C23_DeleteBucketOfNonEmptyBucket ==
    [][\A b \in Inst :
          (pc[b] = "deleteBucket" /\ pc'[b] # "deleteBucket"
             /\ Bkt(b).exists /\ Bkt(b).objects # {}) =>
              /\ rq'[b]["deleteBucket"].err \in {BucketNotEmpty, InternalError}
              /\ stages'[b] = <<[stage |-> "destroy",
                                 err |-> rq'[b]["deleteBucket"].err]>>
              /\ pc'[b] = "done"
              /\ result'[b] = [n |-> 1, err |-> rq'[b]["deleteBucket"].err,
                               data |-> <<>>]
              /\ \A k \in Kinds : rq'[b][k].issued = rq[b][k].issued
              /\ store' = store]_vars

\* C23 witness: a deploy whose destroy found nothing to list and issued no
\* deleteObjects has got BucketNotEmpty from deleteBucket, the other deploy
\* having put an object in between
C23_Witness ==
    \E b \in Inst :
        /\ op[b] = "deploy"
        /\ Returned(b)
        /\ result[b].err = BucketNotEmpty
        /\ rq[b]["listObjects"].done = 1
        /\ rq[b]["deleteObjects"].issued = 0
        /\ Bkt(b).objects # {}

\* the keys a deploy of instance b alone leaves in the bucket: one per regular
\* file under its srcPath
FileSet(b) ==
    LET src == Resolve(options[b].srcPath)
    IN  {ExpectedKey(f, options[b]) :
            f \in {g \in RegularFiles(tree) :
                      Len(g) > Len(src) + 1 /\ SubSeq(g, 1, Len(src)) = src}}

Other(b) == CHOOSE i \in Inst : i # b

BothDeployed ==
    /\ Quiescent
    /\ \A b \in Inst : op[b] = "deploy" /\ Returned(b) /\ ~faulted[b]

\* C24: two deploys of the same bucket name running side by side are unsafe.
\* What still holds in every interleaving: a deploy whose own requests and
\* file reads were all answered properly reports no error but
\* BucketNotEmpty, NoSuchBucket or BucketAlreadyOwnedByYou, the last two only
\* after the other deploy removed, respectively created, the bucket; and when
\* both have reported success the bucket exists and holds files of the two
\* source directories only. That one of them reports such an error, or that
\* the final contents are the file set of neither, is what the witness shows.
C24_ConcurrentDeploys ==
    /\ \A b \in Inst :
          (op[b] = "deploy" /\ Returned(b) /\ ~faulted[b]) =>
              /\ result[b].n = 1
              /\ result[b].err \in {Null, BucketNotEmpty, NoSuchBucket,
                                     BucketAlreadyOwnedByYou}
              /\ result[b].err = BucketAlreadyOwnedByYou =>
                    /\ rq[Other(b)]["createBucket"].done = 1
                    /\ rq[Other(b)]["createBucket"].err = Null
              /\ result[b].err = NoSuchBucket =>
                    /\ rq[Other(b)]["deleteBucket"].done = 1
                    /\ rq[Other(b)]["deleteBucket"].err = Null
    /\ (BothDeployed /\ \A b \in Inst : result[b].err = Null) =>
          /\ Bkt(1).exists
          /\ Keys(Bkt(1)) \subseteq FileSet(1) \cup FileSet(2)

\* C24 witness: both deploys, undisturbed by any fault, have reported success
\* and nothing is in flight, and the bucket's keys are the file set of neither
C24_Witness ==
    /\ BothDeployed
    /\ \A b \in Inst : result[b].err = Null
    /\ \A b \in Inst : Keys(Bkt(1)) # FileSet(b)

\* C25: clear(name, next) of the legacy module invokes next exactly once; on
\* a 404 from headBucket with success and without any list or delete request;
\* otherwise with success only after deleteBucket was issued and completed,
\* the bucket being gone when the next step (create) starts.
C25_ClearInvokesNextAfterDeleteBucket ==
    \A b \in Inst :
        op[b] = "clear" =>
            /\ result[b].n = IF Returned(b) THEN 1 ELSE 0
            /\ (Returned(b) /\ rq[b]["headBucket"].err = E404) =>
                  /\ result[b].err = Null
                  /\ \A k \in ClearKinds \ {"headBucket"} : rq[b][k].issued = 0
            /\ (Returned(b) /\ rq[b]["headBucket"].err = Null
                    /\ result[b].err = Null) =>
                  /\ rq[b]["deleteBucket"].issued = 1
                  /\ rq[b]["deleteBucket"].done = 1
                  /\ ~Bkt(b).exists

=============================================================================
